---- MODULE Spec2Model ----
(***************************************************************************)
(* The numeric-literal lexer of src/src/public.ts: parseExponent,          *)
(* applyExponent, parseBinaryNumber, parseHexadecimalNumber,               *)
(* parseFloatingPointNumber, parseNumber and parseSignedNumber, run over a *)
(* mutable cursor (ParserState).                                           *)
(*                                                                         *)
(* Code points are one-character strings and a text is a sequence of them. *)
(* Indices are 0-based as in the source: at(P, i) reads source[i + 1].     *)
(* A JavaScript number is modelled as an exact rational [n, d] (d > 0, in  *)
(* lowest terms); the rounding of IEEE doubles is outside the model.  The  *)
(* 32-bit integer arithmetic of the `<<` operator is kept bit-exact.       *)
(***************************************************************************)
EXTENDS Integers, Sequences, FiniteSets, TLC

VARIABLES source, offset, result, op, before, inner

vars == <<source, offset, result, op, before, inner>>

(***************************************************************************)
(* Numbers.                                                                *)
(***************************************************************************)
Abs(x) == IF x < 0 THEN -x ELSE x

RECURSIVE Gcd(_, _)
Gcd(a, b) == IF b = 0 THEN a ELSE Gcd(b, a % b)

\* The rational n/d in lowest terms with a positive denominator
Rat(n, d) ==
  IF d = 1 THEN [n |-> n, d |-> 1]
  ELSE LET g == Gcd(Abs(n), Abs(d))
           s == IF d < 0 THEN -1 ELSE 1
       IN [n |-> (s * n) \div g, d |-> (s * d) \div g]

Num(k) == [n |-> k, d |-> 1]

Plus(a, b) == Rat(a.n * b.d + b.n * a.d, a.d * b.d)

Times(a, b) == Rat(a.n * b.n, a.d * b.d)

RECURSIVE Pow(_, _)
Pow(b, k) == IF k = 0 THEN 1 ELSE b * Pow(b, k - 1)

\* Math.pow(base, e) for an integer e of either sign
MathPow(base, e) == IF e >= 0 THEN Num(Pow(base, e)) ELSE Rat(1, Pow(base, -e))

\* The lowest 32-bit two's complement integer, -2^31
MinInt32 == -2147483647 - 1

\* 2^30: from here on doubling leaves the signed 32-bit range
TwoPow30 == 1073741824

\* JavaScript `r << 1` on a number r already in the signed 32-bit range:
\* the low 32 bits of 2r, read as a two's complement integer.
Shl1(r) ==
  IF r >= TwoPow30 THEN (r - TwoPow30) * 2 + MinInt32
  ELSE IF r < -TwoPow30 THEN ((r + TwoPow30) * 2 + 2147483647) + 1
  ELSE r * 2

\* Number.prototype.toString switches to exponent notation ("1e-7") for a
\* non-zero magnitude below 10^-6 (and from 10^21 on, which no number of the
\* model reaches).
ToStringIsExponential(v) ==
  v.n # 0 /\ Abs(v.n) < 2147 /\ Abs(v.n) * 1000000 < v.d

\* Number.parseFloat(value.toString() + 'e' + exp.toString()): the decimal
\* text of value scaled by 10^exp.  When value.toString() already carries an
\* exponent, parseFloat reads that number and stops at the appended 'e'.
ParseFloatRecomposed(value, e) ==
  IF ToStringIsExponential(value) THEN value
  ELSE Times(value, MathPow(10, e))

(***************************************************************************)
(* Character classifiers (./characters).                                   *)
(***************************************************************************)
DIGITS ==
  ("0" :> 0) @@ ("1" :> 1) @@ ("2" :> 2) @@ ("3" :> 3) @@ ("4" :> 4) @@
  ("5" :> 5) @@ ("6" :> 6) @@ ("7" :> 7) @@ ("8" :> 8) @@ ("9" :> 9)

HEX_DIGITS ==
  DIGITS @@
  ("a" :> 10) @@ ("b" :> 11) @@ ("c" :> 12) @@ ("d" :> 13) @@ ("e" :> 14) @@
  ("f" :> 15) @@
  ("A" :> 10) @@ ("B" :> 11) @@ ("C" :> 12) @@ ("D" :> 13) @@ ("E" :> 14) @@
  ("F" :> 15)

\* HEX_DIGITS.get(c): the digit value, or undefined (-1 here) when absent
HexGet(c) == IF c \in DOMAIN HEX_DIGITS THEN HEX_DIGITS[c] ELSE -1

(***************************************************************************)
(* Cursor / Result protocol (./parsers).  P is [source, offset].           *)
(***************************************************************************)
\* What at() answers for an index outside the text
OutOfRange == ""

at(P, i) ==
  IF i >= 0 /\ i < Len(P.source) THEN P.source[i + 1] ELSE OutOfRange

skipTo(P, i) == [P EXCEPT !.offset = i]

failure(P) == [kind |-> "failure", start |-> P.offset]

success(P, end, value) ==
  [kind |-> "success", start |-> P.offset, end |-> end, value |-> value]

error(P, end, value, code) ==
  [kind |-> "error", start |-> P.offset, end |-> end, value |-> value,
   code |-> code]

\* The element of a one-element set.  Only({F(x) : x \in {e}}) is F(e) with
\* e evaluated once, however often F reads x.
Only(S) == CHOOSE x \in S : TRUE

\* No result yet (a fresh cursor), or no inner exponent result
NoResult == [kind |-> "none"]

(***************************************************************************)
(* parseExponent                                                           *)
(***************************************************************************)
RECURSIVE ExponentDigits(_, _, _)
ExponentDigits(P, i, res) ==
  IF at(P, i) \in DOMAIN DIGITS
  THEN ExponentDigits(P, i + 1, res * 10 + DIGITS[at(P, i)])
  ELSE [i |-> i, result |-> res]

parseExponent(P, prefix) ==
  LET i0 == P.offset
      marker == IF prefix = "p" THEN {"p", "P"} ELSE {"e", "E"}
      i1 == i0 + 1
      sign == IF at(P, i1) = "-" THEN -1 ELSE 1
      i2 == IF at(P, i1) = "-" \/ at(P, i1) = "+" THEN i1 + 1 ELSE i1
      run == ExponentDigits(P, i2, 0)
  IN IF i0 >= Len(P.source) THEN failure(P)
     ELSE IF at(P, i0) \notin marker THEN failure(P)
     ELSE IF P.offset # i2 /\ at(P, i2) \notin DOMAIN DIGITS
          THEN error(P, i2, Num(0), "exponent-expected")
     ELSE success(P, run.i, Num(sign * run.result))

\* applyExponent with one slip: an inner error hands on the inner partial
\* value instead of the mantissa.
applyExponent_InnerValue(P, value) ==
  LET start == P.offset
      Scale(e, exp) ==
        IF e.kind = "success" THEN ParseFloatRecomposed(value, e.value.n)
        ELSE IF e.kind = "failure" /\ exp.kind = "success"
             THEN Times(value, MathPow(2, exp.value.n))
        ELSE value
      end == P.offset
      P2 == skipTo(P, start)
      Finish(exp, v) ==
        [parser |-> P2,
         result |-> IF exp.kind = "success" \/ exp.kind = "failure"
                    THEN success(P2, end, v)
                    ELSE error(P2, end, exp.value, "exponent-expected"),
         exp |-> exp]
  IN Only({ Only({ Finish(exp, Scale(e, exp)) :
                     exp \in {IF e.kind = "failure"
                               THEN parseExponent(P, "p") ELSE e} }) :
             e \in {parseExponent(P, "e")} })

(***************************************************************************)
(* applyExponent.  Returns the cursor, the result, and exp, the result of  *)
(* the last inner parseExponent call.                                      *)
(***************************************************************************)
applyExponent(P, value) ==
  LET start == P.offset
      Scale(e, exp) ==
        IF e.kind = "success" THEN ParseFloatRecomposed(value, e.value.n)
        ELSE IF e.kind = "failure" /\ exp.kind = "success"
             THEN Times(value, MathPow(2, exp.value.n))
        ELSE value
      end == P.offset
      P2 == skipTo(P, start)
      Finish(exp, v) ==
        [parser |-> P2,
         result |-> IF exp.kind = "success" \/ exp.kind = "failure"
                    THEN success(P2, end, v)
                    ELSE error(P2, end, v, "exponent-expected"),
         exp |-> exp]
  IN Only({ Only({ Finish(exp, Scale(e, exp)) :
                     exp \in {IF e.kind = "failure"
                               THEN parseExponent(P, "p") ELSE e} }) :
             e \in {parseExponent(P, "e")} })

\* The fractional loop was not entered: no dot follows the whole part
NoFraction == [i |-> -1, fracPart |-> Num(0), underscore |-> FALSE]

\* A return that never reached applyExponent
Return(P, r) == [parser |-> P, result |-> r, exp |-> NoResult]

(***************************************************************************)
(* parseBinaryNumber                                                       *)
(***************************************************************************)
\* The whole-part loop; st is [i, result], the loop's variables
RECURSIVE BinaryWhole(_, _)
BinaryWhole(P, st) ==
  IF st.i < Len(P.source)
  THEN LET c == HexGet(at(P, st.i))
       IN IF c = 0
          THEN BinaryWhole(P, [i |-> st.i + 1, result |-> Shl1(st.result)])
          ELSE IF c = 1
          THEN BinaryWhole(P, [i |-> st.i + 1, result |-> Shl1(st.result) + 1])
          ELSE IF at(P, st.i) = "_"
          THEN BinaryWhole(P, [st EXCEPT !.i = st.i + 1])
          ELSE st
  ELSE st

RECURSIVE BinaryFraction(_, _, _, _)
BinaryFraction(P, i, frac, fracPart) ==
  IF i < Len(P.source)
  THEN LET c == HexGet(at(P, i))
       IN IF c = 0
          THEN BinaryFraction(P, i + 1, Times(frac, Rat(1, 2)), fracPart)
          ELSE IF c = 1
          THEN BinaryFraction(P, i + 1, Times(frac, Rat(1, 2)),
                              Plus(fracPart, frac))
          ELSE IF at(P, i) = "_"
          THEN BinaryFraction(P, i + 1, frac, fracPart)
          ELSE [i |-> i, fracPart |-> fracPart]
  ELSE [i |-> i, fracPart |-> fracPart]

\* parseBinaryNumber with one slip: the cursor is moved past the two prefix
\* characters before they are compared.
parseBinaryNumber_ConsumesPrefix(P) ==
  LET start == P.offset
      Finish(whole, part) ==
        LET hasDot == at(P, whole.i) = "."
            i == IF hasDot THEN part.i ELSE whole.i
            res == IF hasDot THEN Plus(Num(whole.result), part.fracPart)
                   ELSE Num(whole.result)
        IN Only({ applyExponent(Q, v) : Q \in {skipTo(P, i)}, v \in {res} })
  IN IF at(P, start) # "0" \/ at(P, start + 1) # "b"
     THEN Return(skipTo(P, start + 2), failure(P))
     ELSE Only({ Only({ Finish(whole, part) :
                          part \in {IF at(P, whole.i) = "."
                                 THEN BinaryFraction(P, whole.i + 1, Rat(1, 2),
                                      Num(0))
                                 ELSE NoFraction} }) :
                  whole \in {BinaryWhole(P, [i |-> start + 2, result |-> 0])} })

parseBinaryNumber(P) ==
  LET start == P.offset
      Finish(whole, part) ==
        LET hasDot == at(P, whole.i) = "."
            i == IF hasDot THEN part.i ELSE whole.i
            res == IF hasDot THEN Plus(Num(whole.result), part.fracPart)
                   ELSE Num(whole.result)
        IN Only({ applyExponent(Q, v) : Q \in {skipTo(P, i)}, v \in {res} })
  IN IF at(P, start) # "0" \/ at(P, start + 1) # "b"
     THEN Return(P, failure(P))
     ELSE Only({ Only({ Finish(whole, part) :
                          part \in {IF at(P, whole.i) = "."
                                 THEN BinaryFraction(P, whole.i + 1, Rat(1, 2),
                                      Num(0))
                                 ELSE NoFraction} }) :
                  whole \in {BinaryWhole(P, [i |-> start + 2, result |-> 0])} })

(***************************************************************************)
(* parseHexadecimalNumber                                                  *)
(***************************************************************************)
RECURSIVE HexWhole(_, _, _)
HexWhole(P, i, res) ==
  IF i < Len(P.source)
  THEN LET c == at(P, i)
       IN IF c \in DOMAIN HEX_DIGITS
          THEN HexWhole(P, i + 1, res * 16 + HEX_DIGITS[c])
          ELSE IF c # "_" THEN [i |-> i, result |-> res]
          ELSE HexWhole(P, i + 1, res)
  ELSE [i |-> i, result |-> res]

\* HexFraction with one slip: an underscore is skipped, as in the whole part.
RECURSIVE HexFraction_SkipsUnderscore(_, _, _, _)
HexFraction_SkipsUnderscore(P, i, frac, fracPart) ==
  IF i < Len(P.source)
  THEN LET c == at(P, i)
       IN IF c \in DOMAIN HEX_DIGITS
          THEN HexFraction_SkipsUnderscore(
                 P, i + 1, Times(frac, Rat(1, 16)),
                 Plus(fracPart, Times(frac, Num(HEX_DIGITS[c]))))
          ELSE IF c # "_"
          THEN [i |-> i, fracPart |-> fracPart, underscore |-> FALSE]
          ELSE HexFraction_SkipsUnderscore(P, i + 1, frac, fracPart)
  ELSE [i |-> i, fracPart |-> fracPart, underscore |-> FALSE]

\* The fractional loop; underscore is TRUE when the loop left through the
\* `return parser.error(...)` branch, with i already incremented.
RECURSIVE HexFraction(_, _, _, _)
HexFraction(P, i, frac, fracPart) ==
  IF i < Len(P.source)
  THEN LET c == at(P, i)
       IN IF c \in DOMAIN HEX_DIGITS
          THEN HexFraction(P, i + 1, Times(frac, Rat(1, 16)),
                           Plus(fracPart, Times(frac, Num(HEX_DIGITS[c]))))
          ELSE IF c # "_"
          THEN [i |-> i, fracPart |-> fracPart, underscore |-> FALSE]
          ELSE [i |-> i + 1, fracPart |-> fracPart, underscore |-> TRUE]
  ELSE [i |-> i, fracPart |-> fracPart, underscore |-> FALSE]

parseHexadecimalNumber(P) ==
  LET start == P.offset
      Finish(whole, part) ==
        LET hasDot == at(P, whole.i) = "."
            \* `parser.at(i++) === 0x002e` increments i, dot or no dot
            i == IF hasDot THEN part.i ELSE whole.i + 1
            res == IF hasDot THEN Plus(Num(whole.result), part.fracPart)
                   ELSE Num(whole.result)
        IN IF hasDot /\ part.underscore
           THEN Return(P, error(P, part.i, res, "hexadecimal-number-expected"))
           ELSE Only({ applyExponent(Q, v) : Q \in {skipTo(P, i)}, v \in {res} })
  IN IF at(P, start) # "0" \/ at(P, start + 1) # "x"
     THEN Return(P, failure(P))
     ELSE Only({ Only({ Finish(whole, part) :
                        part \in {IF at(P, whole.i) = "."
                                 THEN HexFraction(P, whole.i + 1, Rat(1, 16),
                                      Num(0))
                                 ELSE NoFraction} }) :
                 whole \in {HexWhole(P, start + 2, 0)} })

(***************************************************************************)
(* parseFloatingPointNumber                                                *)
(***************************************************************************)
RECURSIVE DecimalWhole(_, _, _)
DecimalWhole(P, i, res) ==
  IF i < Len(P.source)
  THEN LET c == at(P, i)
       IN IF c \in DOMAIN DIGITS
          THEN DecimalWhole(P, i + 1, res * 10 + DIGITS[c])
          ELSE IF c # "_" THEN [i |-> i, result |-> res]
          ELSE DecimalWhole(P, i + 1, res)
  ELSE [i |-> i, result |-> res]

RECURSIVE DecimalFraction(_, _, _, _)
DecimalFraction(P, i, frac, fracPart) ==
  IF i < Len(P.source)
  THEN LET c == at(P, i)
       IN IF c \in DOMAIN DIGITS
          THEN DecimalFraction(P, i + 1, Times(frac, Rat(1, 10)),
                               Plus(fracPart, Times(frac, Num(DIGITS[c]))))
          ELSE IF c # "_"
          THEN [i |-> i, fracPart |-> fracPart, underscore |-> FALSE]
          ELSE [i |-> i + 1, fracPart |-> fracPart, underscore |-> TRUE]
  ELSE [i |-> i, fracPart |-> fracPart, underscore |-> FALSE]

parseFloatingPointNumber(P) ==
  LET start == P.offset
      Finish(whole, part) ==
        LET hasDot == at(P, whole.i) = "."
            i == IF hasDot THEN part.i ELSE whole.i
            res == IF hasDot THEN Plus(Num(whole.result), part.fracPart)
                   ELSE Num(whole.result)
        IN IF hasDot /\ part.underscore
           THEN Return(P, error(P, part.i, res, "decimal-number-expected"))
           ELSE Only({ applyExponent(Q, v) : Q \in {skipTo(P, i)}, v \in {res} })
  IN IF at(P, start) \notin DOMAIN DIGITS
     THEN Return(P, failure(P))
     ELSE Only({ Only({ Finish(whole, part) :
                        part \in {IF at(P, whole.i) = "."
                                 THEN DecimalFraction(P, whole.i + 1, Rat(1, 10),
                                      Num(0))
                                 ELSE NoFraction} }) :
                 whole \in {DecimalWhole(P, start, 0)} })

(***************************************************************************)
(* parseNumber and parseSignedNumber                                       *)
(***************************************************************************)
\* parseNumber with one slip: the decimal parser is tried first.
parseNumber_DecimalFirst(P) ==
  Only({ IF f.result.kind # "failure" THEN f
         ELSE Only({ IF b.result.kind # "failure" THEN b
                     ELSE parseHexadecimalNumber(b.parser) :
                     b \in {parseBinaryNumber(f.parser)} }) :
         f \in {parseFloatingPointNumber(P)} })

parseNumber(P) ==
  Only({ IF b.result.kind # "failure" THEN b
         ELSE Only({ IF h.result.kind # "failure" THEN h
                     ELSE parseFloatingPointNumber(h.parser) :
                     h \in {parseHexadecimalNumber(b.parser)} }) :
         b \in {parseBinaryNumber(P)} })

parseSignedNumber(P) ==
  LET start == P.offset
      sign == IF at(P, start) = "-" THEN -1 ELSE 1
      i == IF at(P, start) = "-" \/ at(P, start) = "+"
           THEN start + 1 ELSE start
      Finish(r) ==
        LET res == [r.result EXCEPT !.start = start]
        IN [r EXCEPT !.result =
              IF res.kind = "success" \/ res.kind = "error"
              THEN [res EXCEPT !.value = Times(Num(sign), res.value)]
              ELSE res]
  IN Only({ Finish(r) : r \in {parseNumber(Q) : Q \in {skipTo(P, i)}} })

(***************************************************************************)
(* Input texts.                                                            *)
(***************************************************************************)
\* Longest whole-part run, longest fractional run and longest run of bits
\* of the generated literals
MaxWhole == 2

MaxFrac == 1

MaxBits == 33

Strings(A, n) == UNION {[1..k -> A] : k \in 0..n}

Prefixes == {<<>>, <<"0", "b">>, <<"0", "x">>}

Wholes == Strings({"0", "1", "A", "_"}, MaxWhole)

Fracs == {<<>>} \cup {<<".">> \o f : f \in Strings({"1", "_"}, MaxFrac)}

Exponents ==
  {<<m>> \o s \o d : m \in {"e", "E", "p", "P"},
                     s \in {<<>>, <<"+">>, <<"-">>},
                     d \in {<<>>, <<"2">>, <<"0", "3">>}}

\* prefix, whole run, fractional run, then nothing or a short exponent
Literals ==
  {p \o w \o f \o e : p \in Prefixes, w \in Wholes, f \in Fracs,
                      e \in {<<>>, <<"e", "2">>, <<"p", "2">>, <<"e", "+">>}}

\* a short mantissa followed by every shape of exponent
Scaled ==
  {p \o w \o f \o e \o t : p \in Prefixes, w \in {<<"1">>, <<"3">>},
                           f \in {<<>>, <<".", "1">>}, e \in Exponents,
                           t \in {<<>>, <<"x">>}}

\* `0b` and n bits, n up to MaxBits: a one and zeros, or all ones
LongBinary ==
  {<<"0", "b">> \o [i \in 1..n |-> IF i = 1 \/ all THEN "1" ELSE "0"] :
     n \in 30..MaxBits, all \in BOOLEAN}

Examples ==
  { <<"0">>, <<"5">>,
    <<"0", "x", "1", "A">>, <<"0", "b", "1", "0", "1">>,
    <<"0", "x", "1", "p", "4">>, <<"0", "x", "1", "0">>,
    <<"3", "e", "+">>, <<"1", "e", "5">>, <<"1", "e", "-", "1">>,
    <<"0", "b", "1", "p", "2">>,
    <<"0", "x", "1", ".", "0", "_", "1">>,
    <<"0", "x", "1", "_", "0", ".", "0", "1">>,
    <<"1", ".", "0", "_", "1">>, <<"1", "_", "0", ".", "0", "1">>,
    <<"1", "_", "0", "0", "0">>, <<"0", "b", "1", "_", "0", "0", "0">>,
    <<"x">>, <<>> }

Signed == {<<s>> \o t : s \in {"+", "-"}, t \in Examples}

\* a long binary mantissa and an exponent that stops after its sign
LongMalformed == {b \o <<"e", "+">> : b \in LongBinary}

Texts ==
  Literals \cup Scaled \cup LongBinary \cup LongMalformed \cup Examples
    \cup Signed

\* mantissas handed to applyExponent by a direct caller
Values == {Num(0), Num(3), Rat(7, 2), Rat(1, 10000000)}

(***************************************************************************)
(* The cursor and the calls made on it.  op, before, result and inner      *)
(* record the last call: its name, the offset it started from, the result  *)
(* it returned and the result of the parseExponent call inside it.         *)
(***************************************************************************)
Parser == [source |-> source, offset |-> offset]

Init ==
  /\ source \in Texts
  /\ offset = 0
  /\ result = NoResult
  /\ op = "new"
  /\ before = 0
  /\ inner = NoResult

Called(name, r) ==
  /\ offset' = r.parser.offset
  /\ result' = r.result
  /\ inner' = r.exp
  /\ op' = name
  /\ before' = offset
  /\ UNCHANGED source

ParseExponent ==
  \E prefix \in {"e", "p"} :
    \E r \in {parseExponent(Parser, prefix)} :
      Called("parseExponent", Return(Parser, r))

ApplyExponent ==
  \E value \in Values :
    \E r \in {applyExponent(Parser, value)} : Called("applyExponent", r)

ParseBinaryNumber ==
  \E r \in {parseBinaryNumber(Parser)} : Called("parseBinaryNumber", r)

ParseHexadecimalNumber ==
  \E r \in {parseHexadecimalNumber(Parser)} :
    Called("parseHexadecimalNumber", r)

ParseFloatingPointNumber ==
  \E r \in {parseFloatingPointNumber(Parser)} :
    Called("parseFloatingPointNumber", r)

ParseNumber == \E r \in {parseNumber(Parser)} : Called("parseNumber", r)

ParseSignedNumber ==
  \E r \in {parseSignedNumber(Parser)} : Called("parseSignedNumber", r)

\* The caller accepts a result (skipTo(result.end)) or backtracks
\* (skipTo(result.start)); it keeps to positions inside the text.
SkipTo ==
  /\ result.kind \in {"success", "error", "failure"}
  /\ \E i \in {result.start} \cup
              (IF result.kind = "failure" THEN {} ELSE {result.end}) :
       /\ i \in 0..Len(source)
       /\ i # offset
       /\ offset' = skipTo(Parser, i).offset
  /\ result' = NoResult
  /\ inner' = NoResult
  /\ op' = "skipTo"
  /\ before' = offset
  /\ UNCHANGED source

Next ==
  \/ ParseExponent
  \/ ApplyExponent
  \/ ParseBinaryNumber
  \/ ParseHexadecimalNumber
  \/ ParseFloatingPointNumber
  \/ ParseNumber
  \/ ParseSignedNumber
  \/ SkipTo

Spec == Init /\ [][Next]_vars

(***************************************************************************)
(* What a text denotes, read off the text itself and not off the parsers.  *)
(***************************************************************************)
DecChars == DOMAIN DIGITS

HexChars == DOMAIN HEX_DIGITS

BitChars == {"0", "1"}

IsRun(s, A) == \A k \in 1..Len(s) : s[k] \in A

NotUnderscore(c) == c # "_"

Stripped(s) == SelectSeq(s, NotUnderscore)

\* the number a run of digits denotes in the given base
RECURSIVE Value(_, _)
Value(ds, base) ==
  IF ds = <<>> THEN 0
  ELSE Value(SubSeq(ds, 1, Len(ds) - 1), base) * base + HEX_DIGITS[ds[Len(ds)]]

\* a mantissa text cut at its first dot
Split(m) ==
  IF \E k \in 1..Len(m) : m[k] = "."
  THEN LET k == CHOOSE j \in 1..Len(m) :
                  m[j] = "." /\ \A h \in 1..(j - 1) : m[h] # "."
       IN [whole |-> SubSeq(m, 1, k - 1), frac |-> SubSeq(m, k + 1, Len(m))]
  ELSE [whole |-> m, frac |-> <<>>]

\* whole + fraction of a mantissa without its radix prefix
Mantissa(m, base) ==
  LET sp == Split(m)
      f == Stripped(sp.frac)
  IN Plus(Num(Value(Stripped(sp.whole), base)),
          Rat(Value(f, base), Pow(base, Len(f))))

\* a decimal mantissa: a digit, digits and underscores, then possibly a dot
\* and digits
IsDecimalMantissa(m) ==
  LET sp == Split(m)
  IN /\ sp.whole # <<>>
     /\ sp.whole[1] \in DecChars
     /\ IsRun(sp.whole, DecChars \cup {"_"})
     /\ IsRun(sp.frac, DecChars)

\* a binary mantissa without its `0b`: bits and underscores, then possibly a
\* dot and bits and underscores
IsBinaryMantissa(m) ==
  LET sp == Split(m)
  IN /\ Stripped(sp.whole) # <<>>
     /\ IsRun(sp.whole, BitChars \cup {"_"})
     /\ IsRun(sp.frac, BitChars \cup {"_"})

\* the whole part of a binary mantissa has fewer than 32 bits
FitsInt32(m) == Len(Stripped(Split(m).whole)) < 32

HasPrefix(s, c) == Len(s) >= 2 /\ s[1] = "0" /\ s[2] = c

From(s, k) == SubSeq(s, k, Len(s))

Fresh(names) == op \in names /\ before = 0

(***************************************************************************)
(* C1: a hexadecimal literal `0x`, hex digits of value m, no fractional    *)
(* part, then `p`/`P` and decimal digits of value k parses to success      *)
(* with the value m * 2^k; "0x1p4" gives 16.                               *)
(***************************************************************************)
IsHexBinaryExponent(s, k) ==
  /\ HasPrefix(s, "x")
  /\ k \in 3..(Len(s) - 2)
  /\ IsRun(SubSeq(s, 3, k), HexChars)
  /\ s[k + 1] \in {"p", "P"}
  /\ IsRun(From(s, k + 2), DecChars)

C1_HexBinaryExponent ==
  Fresh({"parseNumber", "parseHexadecimalNumber"}) =>
    /\ \A k \in 1..Len(source) :
         IsHexBinaryExponent(source, k) =>
           /\ result.kind = "success"
           /\ result.value =
                Num(Value(SubSeq(source, 3, k), 16)
                    * Pow(2, Value(From(source, k + 2), 10)))
    /\ source = <<"0", "x", "1", "p", "4">> =>
         result.kind = "success" /\ result.value = Num(16)

(***************************************************************************)
(* C2: the cursor offset stays within [0, length] through every sequence   *)
(* of parser calls, and every end position a success or error result       *)
(* reports is at most length.                                              *)
(***************************************************************************)
C2_OffsetInRange ==
  /\ offset \in 0..Len(source)
  /\ result.kind \in {"success", "error"} => result.end <= Len(source)

(***************************************************************************)
(* C3: parseNumber returns the result of the binary parser when that is    *)
(* not a failure, else that of the hexadecimal parser when that is not a   *)
(* failure, else that of the decimal parser, each run from the starting    *)
(* offset; an error of an earlier parser is returned as it is.  "0" gives  *)
(* 0 through the decimal parser, "0x1A" gives 26 and "0b101" gives 5.      *)
(***************************************************************************)
SameResult(r, q) ==
  /\ r.kind = q.kind
  /\ r.start = q.start
  /\ r.kind \in {"success", "error"} => r.end = q.end /\ r.value = q.value
  /\ r.kind = "error" => r.code = q.code

C3_DispatchOrder ==
  op = "parseNumber" =>
    LET P == [source |-> source, offset |-> before]
        first == IF at(P, before) = "0" /\ at(P, before + 1) = "b"
                 THEN parseBinaryNumber(P)
                 ELSE IF at(P, before) = "0" /\ at(P, before + 1) = "x"
                 THEN parseHexadecimalNumber(P)
                 ELSE parseFloatingPointNumber(P)
    IN /\ SameResult(result, first.result)
       /\ offset = first.parser.offset
       /\ (at(P, before) = "0" /\ at(P, before + 1) \in {"b", "x"})
            => result.kind # "failure"
       /\ (before = 0 /\ source = <<"0">>)
            => result.kind = "success" /\ result.value = Num(0)
       /\ (before = 0 /\ source = <<"0", "x", "1", "A">>)
            => result.kind = "success" /\ result.value = Num(26)
       /\ (before = 0 /\ source = <<"0", "b", "1", "0", "1">>)
            => result.kind = "success" /\ result.value = Num(5)

C3_Witness ==
  /\ op = "parseNumber"
  /\ source = <<"0", "b", "1", "0", "1">>
  /\ before = 0
  /\ result.kind = "success"
  /\ result.value = Num(5)

(***************************************************************************)
(* C4: when parseBinaryNumber, parseHexadecimalNumber,                     *)
(* parseFloatingPointNumber, parseExponent or parseNumber returns failure, *)
(* the cursor offset is what it was before the call; and the radix parsers *)
(* fail exactly when the text at the cursor lacks their prefix (`0b`,      *)
(* `0x`, a decimal digit).                                                 *)
(***************************************************************************)
C4_FailureKeepsOffset ==
  LET P == [source |-> source, offset |-> before]
  IN /\ (/\ result.kind = "failure"
         /\ op \in {"parseBinaryNumber", "parseHexadecimalNumber",
                    "parseFloatingPointNumber", "parseExponent",
                    "parseNumber"})
          => offset = before /\ result.start = before
     /\ op = "parseBinaryNumber" =>
          (result.kind = "failure"
             <=> ~(at(P, before) = "0" /\ at(P, before + 1) = "b"))
     /\ op = "parseHexadecimalNumber" =>
          (result.kind = "failure"
             <=> ~(at(P, before) = "0" /\ at(P, before + 1) = "x"))
     /\ op = "parseFloatingPointNumber" =>
          (result.kind = "failure" <=> at(P, before) \notin DecChars)

C4_Witness ==
  /\ op = "parseBinaryNumber"
  /\ result.kind = "failure"
  /\ source = <<"0", "x", "1", "A">>
  /\ offset = 0

(***************************************************************************)
(* C5: a decimal or binary mantissa followed by `e`/`E`, a sign, and then  *)
(* a non-digit or the end of the text makes parseNumber return an error    *)
(* with code exponent-expected whose value is the mantissa, the value      *)
(* parseNumber gives the mantissa on its own: the number its digits denote *)
(* for a decimal mantissa and for a binary one of fewer than 32 bits.      *)
(* "3e+" gives the error with value 3.                                     *)
(***************************************************************************)
IsSignWithoutDigits(s, k) ==
  /\ k + 2 <= Len(s)
  /\ s[k + 1] \in {"e", "E"}
  /\ s[k + 2] \in {"+", "-"}
  /\ (k + 3 <= Len(s) => s[k + 3] \notin DecChars)

C5_ExponentExpected ==
  Fresh({"parseNumber"}) =>
    /\ \A k \in 1..Len(source) :
         LET m == SubSeq(source, 1, k)
             decimal == IsDecimalMantissa(m)
             binary == HasPrefix(m, "b") /\ IsBinaryMantissa(From(m, 3))
         IN (IsSignWithoutDigits(source, k) /\ (decimal \/ binary)) =>
              /\ result.kind = "error"
              /\ result.code = "exponent-expected"
              \* the value parseNumber gives the mantissa on its own
              /\ result.value =
                   parseNumber([source |-> m, offset |-> 0]).result.value
              /\ decimal => result.value = Mantissa(m, 10)
              /\ (binary /\ FitsInt32(From(m, 3))) =>
                   result.value = Mantissa(From(m, 3), 2)
    /\ source = <<"3", "e", "+">> =>
         /\ result.kind = "error"
         /\ result.code = "exponent-expected"
         /\ result.value = Num(3)

C5_Witness ==
  /\ op = "parseNumber"
  /\ before = 0
  /\ source = <<"3", "e", "+">>
  /\ result.kind = "error"
  /\ result.value = Num(3)

(***************************************************************************)
(* C6: in parseHexadecimalNumber and parseFloatingPointNumber an           *)
(* underscore met in the fractional run gives an error, with code          *)
(* hexadecimal-number-expected and decimal-number-expected, while an       *)
(* underscore in the whole-part run is skipped and the literal parses to   *)
(* the value of its digits; "0x1.0_1" is an error, "0x1_0.01" a success.   *)
(***************************************************************************)
\* m is whole `.` digits `_` ...: an underscore met in the fractional run
HasFractionUnderscore(m, digits) ==
  LET sp == Split(m)
  IN /\ IsRun(sp.whole, digits \cup {"_"})
     /\ \E k \in 1..Len(sp.frac) :
          sp.frac[k] = "_" /\ IsRun(SubSeq(sp.frac, 1, k - 1), digits)

\* m is a whole run with an underscore in it, then possibly a dot and digits
HasWholeUnderscore(m, digits) ==
  LET sp == Split(m)
  IN /\ IsRun(sp.whole, digits \cup {"_"})
     /\ \E k \in 1..Len(sp.whole) : sp.whole[k] = "_"
     /\ IsRun(sp.frac, digits)

C6_UnderscoreAsymmetry ==
  /\ Fresh({"parseHexadecimalNumber", "parseNumber"}) /\ HasPrefix(source, "x") =>
       /\ HasFractionUnderscore(From(source, 3), HexChars) =>
            result.kind = "error" /\ result.code = "hexadecimal-number-expected"
       /\ HasWholeUnderscore(From(source, 3), HexChars) =>
            /\ result.kind = "success"
            /\ result.value = Mantissa(From(source, 3), 16)
  /\ (/\ Fresh({"parseFloatingPointNumber", "parseNumber"})
      /\ source # <<>>
      /\ source[1] \in DecChars) =>
       /\ HasFractionUnderscore(source, DecChars) =>
            result.kind = "error" /\ result.code = "decimal-number-expected"
       /\ HasWholeUnderscore(source, DecChars) =>
            /\ result.kind = "success"
            /\ result.value = Mantissa(source, 10)

C6_Witness ==
  /\ op = "parseHexadecimalNumber"
  /\ before = 0
  /\ source = <<"0", "x", "1", ".", "0", "_", "1">>
  /\ result.kind = "error"
  /\ result.code = "hexadecimal-number-expected"

(***************************************************************************)
(* C7: whenever parseSignedNumber returns failure, also on a `+` or `-`    *)
(* that no number follows, the cursor offset is what it was before the     *)
(* call.                                                                   *)
(***************************************************************************)
C7_SignedFailureKeepsOffset ==
  (op = "parseSignedNumber" /\ result.kind = "failure") => offset = before

(***************************************************************************)
(* C8: whenever the parseExponent call inside applyExponent returns an     *)
(* error, the caller gets an error with the same code and the same end     *)
(* position.                                                               *)
(***************************************************************************)
C8_ErrorForwarded ==
  inner.kind = "error" =>
    /\ result.kind = "error"
    /\ result.code = inner.code
    /\ result.end = inner.end

(***************************************************************************)
(* C9: when applyExponent recognizes an exponent, the success result ends  *)
(* just past the last exponent digit and the cursor stands there;          *)
(* parseNumber reports end 3 on "1e5" and end 5 on "0b1p2".                *)
(***************************************************************************)
C9_EndPastExponent ==
  /\ inner.kind = "success" =>
       /\ result.kind = "success"
       /\ result.end = inner.end
       /\ offset = inner.end
  /\ (Fresh({"parseNumber"}) /\ source = <<"1", "e", "5">>) =>
       result.kind = "success" /\ result.end = 3
  /\ (Fresh({"parseNumber"}) /\ source = <<"0", "b", "1", "p", "2">>) =>
       result.kind = "success" /\ result.end = 5

(***************************************************************************)
(* C10: `0b` followed only by bits and underscores parses to success with  *)
(* the non-negative integer the bits denote, for runs of any length, 32    *)
(* bits and more included.                                                 *)
(***************************************************************************)
\* the non-negative integer v has exactly the binary digits bits
Denotes(v, bits) ==
  LET lead == {k \in 1..Len(bits) : bits[k] = "1"}
      first == CHOOSE k \in lead : \A j \in lead : k <= j
      sig == IF lead = {} THEN <<>> ELSE From(bits, first)
      n == Len(sig)
  IN /\ v >= 0
     /\ n <= 31
     /\ \A k \in 1..n : (v \div 2 ^ (n - k)) % 2 = DIGITS[sig[k]]
     /\ n < 31 => v < 2 ^ n

C10_BinaryValue ==
  (/\ Fresh({"parseBinaryNumber"})
   /\ HasPrefix(source, "b")
   /\ IsRun(From(source, 3), BitChars \cup {"_"})
   /\ Stripped(From(source, 3)) # <<>>) =>
    /\ result.kind = "success"
    /\ result.value.d = 1
    /\ Denotes(result.value.n, Stripped(From(source, 3)))

====
